---- MODULE Spec2Model ----
(***************************************************************************)
(* Model of scripts/generate_lua_bridges.py: the identifier derivation,    *)
(* the renderer generate_bridge_file, the batch driver main, and the       *)
(* control flow of the wrapper function the renderer emits.                *)
(*                                                                         *)
(* Text is modelled as sequences of one-character strings, so that         *)
(* str.title(), str.replace('_', '') and str.lower() are computed          *)
(* character by character as Python computes them.                         *)
(***************************************************************************)
EXTENDS Integers, Sequences, FiniteSets, TLC

VARIABLES
    \* ---- identifier derivation (line 153) on arbitrary names
    dName, fNameA, fNameB, identA, identB, derived,
    \* ---- main / generate_bridge_file
    batch,            \* BRIDGE_CONFIGS.items(): sequence of [name, config]
    pc,               \* position of the script
    idx,              \* position of main's for loop in batch
    fi,               \* position of the enumerate(functions) loop
    ci,               \* position of the constants loop
    function_defs, function_impls, constants_code,   \* locals of the renderer
    content,          \* value returned by generate_bridge_file
    files,            \* filesystem: path (domain name) -> what the file holds
    stdout,           \* lines printed by main
    stderr,           \* uncaught exception report of the interpreter
    runs,             \* number of times the script was started
    returned,         \* history: domain name -> set of texts the renderer returned
    \* ---- one execution of an emitted wrapper (lines 157-193)
    wpc,              \* position in the wrapper
    ctxPresent,       \* whether getScriptContext finds a context
    arg_count,        \* lua_gettop(L)
    wi,               \* the loop's i
    pending,          \* arg_value: the position converted but not yet appended
    args,             \* args.items, as the positions they were converted from
    pulled,           \* history: positions converted successfully, in order
    convFailed,       \* history: a conversion failed
    released,         \* history: position -> number of deinit calls on its value
    hostCalls,        \* history: the argument lists the host function was given
    hasResult, resultReleased, pushed, ret

genVars == <<batch, pc, idx, fi, ci, function_defs, function_impls,
             constants_code, content, files, stdout, stderr, runs, returned>>
derVars == <<dName, fNameA, fNameB, identA, identB, derived>>
wrapVars == <<wpc, ctxPresent, arg_count, wi, pending, args, pulled, convFailed, released,
              hostCalls, hasResult, resultReleased, pushed, ret>>
vars == <<derVars, genVars, wrapVars>>

\* ------------------------------------------------------------------ bounds
MaxLen == 3        \* longest function name drawn for the derivation
MaxDomLen == 3     \* longest domain name drawn for the derivation
MaxBatch == 3      \* most domains in one batch
MaxRuns == 2       \* most starts of the script
MaxArgs == 4       \* most arguments of one guest call

\* ------------------------------------------------------------- characters
LowerChars == <<"a","b","c","d","e","f","g","h","i","j","k","l","m",
                "n","o","p","q","r","s","t","u","v","w","x","y","z">>
UpperChars == <<"A","B","C","D","E","F","G","H","I","J","K","L","M",
                "N","O","P","Q","R","S","T","U","V","W","X","Y","Z">>

IsLower(c) == \E k \in DOMAIN LowerChars : LowerChars[k] = c
IsUpper(c) == \E k \in DOMAIN UpperChars : UpperChars[k] = c
IsCased(c) == IsLower(c) \/ IsUpper(c)

ToUpper(c) ==
    IF IsLower(c)
    THEN UpperChars[CHOOSE k \in DOMAIN LowerChars : LowerChars[k] = c]
    ELSE c

ToLower(c) ==
    IF IsUpper(c)
    THEN LowerChars[CHOOSE k \in DOMAIN UpperChars : UpperChars[k] = c]
    ELSE c

\* str.lower()
Lower(s) == [k \in DOMAIN s |-> ToLower(s[k])]

\* str.title(): a cased character is upper-cased when the character before it
\* is not cased (or there is none) and lower-cased otherwise; other
\* characters are kept.
TitleNoWordBreak(s) ==
    [k \in DOMAIN s |-> IF k = 1 THEN ToUpper(s[k]) ELSE ToLower(s[k])]

Title(s) ==
    [k \in DOMAIN s |->
        IF ~IsCased(s[k]) THEN s[k]
        ELSE IF k > 1 /\ IsCased(s[k-1]) THEN ToLower(s[k])
        ELSE ToUpper(s[k])]

\* str.replace(old, '') for a one-character old
RECURSIVE Replace(_, _)
Replace(s, old) ==
    IF s = <<>> THEN <<>>
    ELSE (IF Head(s) = old THEN <<>> ELSE <<Head(s)>>) \o Replace(Tail(s), old)

\* line 153: f"lua{bridge_name.title()}{func_name.title().replace('_', '')}"
LuaFuncName(bridge_name, func_name) ==
    <<"l","u","a">> \o Title(bridge_name) \o Replace(Title(func_name), "_")

\* line 182: f"{bridge_name.title()}Bridge.{func_name.replace('_', '')}"
BridgeCall(bridge_name, func_name) ==
    [bridge |-> Title(bridge_name) \o <<"B","r","i","d","g","e">>,
     method |-> Replace(func_name, "_")]

\* ------------------------------------------------------- renderer pieces
\* line 154: one registration-table entry
FunctionDef(bridge_name, func_name) ==
    [name |-> func_name, func |-> LuaFuncName(bridge_name, func_name)]

\* lines 157-193: one wrapper implementation (the holes of the template)
FuncImpl(bridge_name, func_name, func_doc) ==
    [doc |-> func_doc,
     export_fn |-> LuaFuncName(bridge_name, func_name),
     call |-> BridgeCall(bridge_name, func_name)]

RECURSIVE ConstEntriesSwapped(_)
ConstEntriesSwapped(const_values) ==
    IF const_values = <<>> THEN <<>>
    ELSE << [op |-> "lua_pushstring", arg |-> Head(const_values)],
            [op |-> "lua_setfield", arg |-> Lower(Head(const_values))] >>
         \o ConstEntriesSwapped(Tail(const_values))

\* lines 203-206: the two statements emitted for one value of a group
RECURSIVE ConstEntries(_)
ConstEntries(const_values) ==
    IF const_values = <<>> THEN <<>>
    ELSE << [op |-> "lua_pushstring", arg |-> Lower(Head(const_values))],
            [op |-> "lua_setfield", arg |-> Head(const_values)] >>
         \o ConstEntries(Tail(const_values))

\* lines 199-210: the block emitted for one constant group
ConstBlock(const_name, const_values) ==
    << [op |-> "comment", arg |-> const_name],
       [op |-> "lua_newtable", arg |-> <<>>] >>
    \o ConstEntries(const_values)
    \o << [op |-> "lua_setfield", arg |-> const_name] >>

\* chr(10).join(blocks): the blocks one after the other
RECURSIVE Join(_)
Join(blocks) ==
    IF blocks = <<>> THEN <<>> ELSE Head(blocks) \o Join(Tail(blocks))

\* line 144: config.get("constants", [])
ConstantsOf(config) ==
    IF "constants" \in DOMAIN config THEN config.constants ELSE <<>>

\* lines 143, 145, 146: config["functions"], config["import_name"],
\* config["description"] raise KeyError, in this order
MissingKey(config) ==
    IF "functions" \notin DOMAIN config THEN "functions"
    ELSE IF "import_name" \notin DOMAIN config THEN "import_name"
    ELSE IF "description" \notin DOMAIN config THEN "description"
    ELSE "none"

\* lines 214-268: the file text, as the values of the template's holes
FileContent(bridge_name, config, defs, impls, consts) ==
    [aboutme |-> Title(bridge_name),
     description |-> config.description,
     bridge_const |-> Title(bridge_name) \o <<"B","r","i","d","g","e">>,
     bridge_path |-> bridge_name \o <<"_","b","r","i","d","g","e",".","z","i","g">>,
     import_name |-> config.import_name,
     function_count |-> Len(config.functions),
     register_table |-> defs,
     add_constants |-> Join(consts),
     implementations |-> impls]

\* ------------------------------------------------------------ the inputs
n_memory == <<"m","e","m","o","r","y">>
n_hook == <<"h","o","o","k">>
n_event == <<"e","v","e","n","t">>
n_test == <<"t","e","s","t">>
n_schema == <<"s","c","h","e","m","a">>
n_store == <<"s","t","o","r","e">>
n_retrieve == <<"r","e","t","r","i","e","v","e">>
n_get_info == <<"g","e","t","_","i","n","f","o">>
n_get__info == <<"g","e","t","_","_","i","n","f","o">>
n_list == <<"l","i","s","t">>
n_emit == <<"e","m","i","t">>
n_validate == <<"v","a","l","i","d","a","t","e">>
n_Type == <<"T","y","p","e">>
n_Priority == <<"P","r","i","o","r","i","t","y">>
n_SHORT_TERM == <<"S","H","O","R","T","_","T","E","R","M">>
n_LONG_TERM == <<"L","O","N","G","_","T","E","R","M">>
n_PRE == <<"P","R","E">>
n_POST == <<"P","O","S","T">>
n_HIGH == <<"H","I","G","H">>

\* Entries in the shape of BRIDGE_CONFIGS (lines 11-138): two well-formed
\* ones taken from it, one without "constants", one whose function names
\* repeat, one whose function names differ only by a doubled underscore, and
\* one that lacks "import_name".
Pool ==
    << [name |-> n_memory,
        config |-> [functions |-> << <<n_store, "store(key, value)">>,
                                     <<n_retrieve, "retrieve(key)">> >>,
                    constants |-> << <<n_Type, <<n_SHORT_TERM, n_LONG_TERM>> >> >>,
                    import_name |-> n_memory,
                    description |-> "Memory management"]],
       [name |-> n_hook,
        config |-> [functions |-> << <<n_get_info, "get_info(hook_id)">>,
                                     <<n_list, "list(hook_name?)">> >>,
                    constants |-> << <<n_Type, <<n_PRE, n_POST>> >>,
                                     <<n_Priority, <<n_HIGH>> >> >>,
                    import_name |-> n_hook,
                    description |-> "Lifecycle hooks"]],
       [name |-> n_event,
        config |-> [functions |-> << <<n_emit, "emit(event_name, data)">>,
                                     <<n_emit, "emit(event_name)">> >>,
                    import_name |-> n_event,
                    description |-> "Event emission"]],
       [name |-> n_test,
        config |-> [functions |-> << <<n_get_info, "get_info()">>,
                                     <<n_get__info, "get__info()">> >>,
                    constants |-> << <<n_Type, <<n_HIGH>> >> >>,
                    import_name |-> n_test,
                    description |-> "Testing"]],
       [name |-> n_schema,
        config |-> [functions |-> << <<n_validate, "validate(data, schema)">> >>,
                    constants |-> << >>,
                    description |-> "JSON schema validation"]] >>

\* a dict holds each key once: batches are the non-empty sequences of
\* distinct Pool entries
Batches ==
    UNION { { [k \in 1..n |-> Pool[f[k]]] :
                f \in { g \in [1..n -> DOMAIN Pool] :
                          \A a, b \in 1..n : a # b => g[a] # g[b] } } :
            n \in 1..MaxBatch }

\* ------------------------------------------- main / generate_bridge_file
IdleGen ==
    /\ batch = <<>> /\ pc = "idle" /\ idx = 0 /\ fi = 0 /\ ci = 0
    /\ function_defs = <<>> /\ function_impls = <<>> /\ constants_code = <<>>
    /\ content = <<>> /\ files = <<>> /\ stdout = <<>> /\ stderr = <<>>
    /\ runs = 0 /\ returned = <<>>

InitGen ==
    /\ batch \in Batches
    /\ pc = "main" /\ idx = 1 /\ fi = 0 /\ ci = 0
    /\ function_defs = <<>> /\ function_impls = <<>> /\ constants_code = <<>>
    /\ content = <<>> /\ files = <<>> /\ stdout = <<>> /\ stderr = <<>>
    /\ runs = 1 /\ returned = <<>>

bridge_name == batch[idx].name
config == batch[idx].config

\* lines 276-278 and 143-150: the loop takes the next item and calls the
\* renderer, which reads the configuration and empties its two lists; a
\* missing key raises KeyError, which nothing catches
GenEnterKeepLists ==
    /\ pc = "main" /\ idx <= Len(batch)
    /\ IF MissingKey(config) # "none"
       THEN /\ stderr' = << [exc |-> "KeyError", arg |-> MissingKey(config),
                             raised_in |-> "generate_bridge_file",
                             domains |-> {}] >>
            /\ pc' = "exit"
            /\ UNCHANGED <<fi, function_defs, function_impls>>
       ELSE /\ fi' = 1 /\ pc' = "gen_funcs"
            /\ UNCHANGED <<function_defs, function_impls, stderr>>
    /\ UNCHANGED <<batch, idx, ci, constants_code, content, files, stdout,
                   runs, returned>>
    /\ UNCHANGED <<derVars, wrapVars>>

GenEnter ==
    /\ pc = "main" /\ idx <= Len(batch)
    /\ IF MissingKey(config) # "none"
       THEN /\ stderr' = << [exc |-> "KeyError", arg |-> MissingKey(config),
                             raised_in |-> "generate_bridge_file",
                             domains |-> {}] >>
            /\ pc' = "exit"
            /\ UNCHANGED <<fi, function_defs, function_impls>>
       ELSE /\ function_defs' = <<>> /\ function_impls' = <<>>
            /\ fi' = 1 /\ pc' = "gen_funcs"
            /\ UNCHANGED stderr
    /\ UNCHANGED <<batch, idx, ci, constants_code, content, files, stdout,
                   runs, returned>>
    /\ UNCHANGED <<derVars, wrapVars>>

GenFunctionPrepends ==
    /\ pc = "gen_funcs" /\ fi <= Len(config.functions)
    /\ LET func_name == config.functions[fi][1]
           func_doc == config.functions[fi][2]
       IN /\ function_defs' =
                <<FunctionDef(bridge_name, func_name)>> \o function_defs
          /\ function_impls' =
                Append(function_impls, FuncImpl(bridge_name, func_name, func_doc))
    /\ fi' = fi + 1
    /\ UNCHANGED <<batch, pc, idx, ci, constants_code, content, files, stdout,
                   stderr, runs, returned>>
    /\ UNCHANGED <<derVars, wrapVars>>

\* lines 152-194: one iteration of the loop over the functions
GenFunction ==
    /\ pc = "gen_funcs" /\ fi <= Len(config.functions)
    /\ LET func_name == config.functions[fi][1]
           func_doc == config.functions[fi][2]
       IN /\ function_defs' =
                Append(function_defs, FunctionDef(bridge_name, func_name))
          /\ function_impls' =
                Append(function_impls, FuncImpl(bridge_name, func_name, func_doc))
    /\ fi' = fi + 1
    /\ UNCHANGED <<batch, pc, idx, ci, constants_code, content, files, stdout,
                   stderr, runs, returned>>
    /\ UNCHANGED <<derVars, wrapVars>>

\* line 197: the loop is over; constants_code = []
GenFunctionsDone ==
    /\ pc = "gen_funcs" /\ fi > Len(config.functions)
    /\ constants_code' = <<>> /\ ci' = 1 /\ pc' = "gen_consts"
    /\ UNCHANGED <<batch, idx, fi, function_defs, function_impls, content,
                   files, stdout, stderr, runs, returned>>
    /\ UNCHANGED <<derVars, wrapVars>>

\* lines 198-211: one iteration of the loop over the constant groups
GenConstants ==
    /\ pc = "gen_consts" /\ ci <= Len(ConstantsOf(config))
    /\ LET const_name == ConstantsOf(config)[ci][1]
           const_values == ConstantsOf(config)[ci][2]
       IN constants_code' =
              Append(constants_code, ConstBlock(const_name, const_values))
    /\ ci' = ci + 1
    /\ UNCHANGED <<batch, pc, idx, fi, function_defs, function_impls, content,
                   files, stdout, stderr, runs, returned>>
    /\ UNCHANGED <<derVars, wrapVars>>

\* lines 214-270 and 278: the text is assembled and returned to main
GenFileContent ==
    /\ pc = "gen_consts" /\ ci > Len(ConstantsOf(config))
    /\ content' = FileContent(bridge_name, config, function_defs,
                              function_impls, constants_code)
    /\ returned' = IF bridge_name \in DOMAIN returned
                   THEN [returned EXCEPT ![bridge_name] = @ \cup {content'}]
                   ELSE (bridge_name :> {content'}) @@ returned
    /\ pc' = "write"
    /\ UNCHANGED <<batch, idx, fi, ci, function_defs, function_impls,
                   constants_code, files, stdout, stderr, runs>>
    /\ UNCHANGED <<derVars, wrapVars>>

\* lines 280-281: open(file_path, 'w') and f.write(content).  open may raise
\* before the file is touched; write may raise after open truncated it.
WriteFile ==
    /\ pc = "write"
    /\ \/ /\ files' = (bridge_name :> [complete |-> TRUE, text |-> content])
                      @@ files
          /\ pc' = "print"
          /\ UNCHANGED stderr
       \/ /\ stderr' = << [exc |-> "OSError", arg |-> "open",
                           raised_in |-> "main", domains |-> {}] >>
          /\ pc' = "exit"
          /\ UNCHANGED files
       \/ /\ files' = (bridge_name :> [complete |-> FALSE, text |-> content])
                      @@ files
          /\ stderr' = << [exc |-> "OSError", arg |-> "write",
                           raised_in |-> "main", domains |-> {}] >>
          /\ pc' = "exit"
    /\ UNCHANGED <<batch, idx, fi, ci, function_defs, function_impls,
                   constants_code, content, stdout, runs, returned>>
    /\ UNCHANGED <<derVars, wrapVars>>

\* line 283: print(f"Generated {file_path}"), then the next item
PrintGenerated ==
    /\ pc = "print"
    /\ stdout' = Append(stdout, bridge_name)
    /\ idx' = idx + 1
    /\ pc' = "main"
    /\ UNCHANGED <<batch, fi, ci, function_defs, function_impls,
                   constants_code, content, files, stderr, runs, returned>>
    /\ UNCHANGED <<derVars, wrapVars>>

\* line 276: the items are exhausted and main returns
MainReturn ==
    /\ pc = "main" /\ idx > Len(batch)
    /\ pc' = "exit"
    /\ UNCHANGED <<batch, idx, fi, ci, function_defs, function_impls,
                   constants_code, content, files, stdout, stderr, runs,
                   returned>>
    /\ UNCHANGED <<derVars, wrapVars>>

\* lines 285-286: the script is started again on the same configuration;
\* the files of the earlier run are still there
RunAgain ==
    /\ pc = "exit" /\ runs < MaxRuns
    /\ runs' = runs + 1
    /\ idx' = 1 /\ pc' = "main"
    /\ stdout' = <<>> /\ stderr' = <<>>
    /\ UNCHANGED <<batch, fi, ci, function_defs, function_impls,
                   constants_code, content, files, returned>>
    /\ UNCHANGED <<derVars, wrapVars>>

GenNext ==
    \/ GenEnter
    \/ GenFunction
    \/ GenFunctionsDone
    \/ GenConstants
    \/ GenFileContent
    \/ WriteFile
    \/ PrintGenerated
    \/ MainReturn
    \/ RunAgain

\* ------------------------------------------------ identifier derivation
\* the characters names are drawn from: a lowercase letter, an uppercase
\* letter and the separator
Alphabet == {"a", "B", "_"}

\* names are identifier-safe: they start with a letter
Names(n) == { s \in UNION { [1..k -> Alphabet] : k \in 1..n } : s[1] # "_" }

IdleDer ==
    /\ dName = <<>> /\ fNameA = <<>> /\ fNameB = <<>>
    /\ identA = <<>> /\ identB = <<>> /\ derived = FALSE

InitDer ==
    /\ dName \in Names(MaxDomLen)
    /\ fNameA \in Names(MaxLen)
    /\ fNameB \in Names(MaxLen)
    /\ identA = <<>> /\ identB = <<>> /\ derived = FALSE

\* line 153, for two functions of one domain
Derive ==
    /\ ~derived
    /\ dName # <<>>
    /\ identA' = LuaFuncName(dName, fNameA)
    /\ identB' = LuaFuncName(dName, fNameB)
    /\ derived' = TRUE
    /\ UNCHANGED <<dName, fNameA, fNameB>>
    /\ UNCHANGED <<genVars, wrapVars>>

\* ------------------------------------------- an emitted wrapper, running
IdleWrap ==
    /\ wpc = "idle" /\ ctxPresent = FALSE /\ arg_count = 0 /\ wi = 0
    /\ pending = 0 /\ args = <<>> /\ pulled = <<>> /\ released = <<>>
    /\ convFailed = FALSE
    /\ hostCalls = <<>> /\ hasResult = FALSE /\ resultReleased = 0
    /\ pushed = FALSE /\ ret = "none"

\* a guest call: the context may be missing, and lua_gettop gives arg_count
InitWrap ==
    /\ wpc = "entry" /\ ctxPresent \in BOOLEAN /\ arg_count \in 0..MaxArgs
    /\ wi = 0 /\ pending = 0 /\ args = <<>> /\ pulled = <<>>
    /\ convFailed = FALSE
    /\ released = [p \in 1..arg_count |-> 0]
    /\ hostCalls = <<>> /\ hasResult = FALSE /\ resultReleased = 0
    /\ pushed = FALSE /\ ret = "none"

\* lines 160-162: getScriptContext(L) orelse return handleBridgeError(...);
\* no defer is registered yet
GetScriptContext ==
    /\ wpc = "entry"
    /\ IF ctxPresent
       THEN wpc' = "loop" /\ UNCHANGED ret
       ELSE wpc' = "done" /\ ret' = "handled:ScriptContextRequired"
    /\ UNCHANGED <<ctxPresent, arg_count, wi, pending, args, pulled, released,
                   hostCalls, hasResult, resultReleased, pushed>>
    /\ UNCHANGED <<derVars, genVars, convFailed>>

\* lines 174-177: pullScriptValue(.., i + 1) catch return handleBridgeError
PullSkipsFailure ==
    /\ wpc = "loop" /\ wi < arg_count
    /\ \/ /\ pending' = wi + 1
          /\ pulled' = Append(pulled, wi + 1)
          /\ wpc' = "append"
          /\ UNCHANGED <<ret, wi, convFailed>>
       \/ /\ wi' = wi + 1
          /\ convFailed' = TRUE
          /\ UNCHANGED <<pending, pulled, wpc, ret>>
    /\ UNCHANGED <<ctxPresent, arg_count, args, released, hostCalls,
                   hasResult, resultReleased, pushed>>
    /\ UNCHANGED <<derVars, genVars>>

PullScriptValue ==
    /\ wpc = "loop" /\ wi < arg_count
    /\ \/ /\ pending' = wi + 1
          /\ pulled' = Append(pulled, wi + 1)
          /\ wpc' = "append"
          /\ UNCHANGED <<ret, convFailed>>
       \/ /\ ret' = "handled:pull"
          /\ convFailed' = TRUE
          /\ wpc' = "defers"
          /\ UNCHANGED <<pending, pulled>>
    /\ UNCHANGED <<ctxPresent, arg_count, wi, args, released, hostCalls,
                   hasResult, resultReleased, pushed>>
    /\ UNCHANGED <<derVars, genVars>>

\* line 178: try args.append(arg_value); on failure the function returns
\* with arg_value held by nothing
ArgsAppend ==
    /\ wpc = "append"
    /\ \/ /\ args' = Append(args, pending)
          /\ pending' = 0
          /\ wi' = wi + 1
          /\ wpc' = "loop"
          /\ UNCHANGED ret
       \/ /\ ret' = "propagated:append"
          /\ wpc' = "defers"
          /\ UNCHANGED <<args, pending, wi>>
    /\ UNCHANGED <<ctxPresent, arg_count, pulled, released, hostCalls,
                   hasResult, resultReleased, pushed>>
    /\ UNCHANGED <<derVars, genVars, convFailed>>

\* lines 182-185: the host implementation is called with args.items; its
\* result gets a defer
CallBridge ==
    /\ wpc = "loop" /\ wi >= arg_count
    /\ hostCalls' = Append(hostCalls, args)
    /\ \/ /\ hasResult' = TRUE
          /\ wpc' = "push"
          /\ UNCHANGED ret
       \/ /\ ret' = "handled:bridge"
          /\ wpc' = "defers"
          /\ UNCHANGED hasResult
    /\ UNCHANGED <<ctxPresent, arg_count, wi, pending, args, pulled, released,
                   resultReleased, pushed>>
    /\ UNCHANGED <<derVars, genVars, convFailed>>

\* lines 188-192: pushScriptValue catch return handleBridgeError; return 1
PushScriptValue ==
    /\ wpc = "push"
    /\ \/ pushed' = TRUE /\ ret' = "1"
       \/ ret' = "handled:push" /\ UNCHANGED pushed
    /\ wpc' = "defers"
    /\ UNCHANGED <<ctxPresent, arg_count, wi, pending, args, pulled, released,
                   hostCalls, hasResult, resultReleased>>
    /\ UNCHANGED <<derVars, genVars, convFailed>>

\* lines 185 and 167-172: on return the defers run, last registered first:
\* result.deinit if the result exists, then deinit of every item of args
RunDefers ==
    /\ wpc = "defers"
    /\ resultReleased' = IF hasResult THEN resultReleased + 1 ELSE resultReleased
    /\ released' = [p \in DOMAIN released |->
                      released[p] + Cardinality({k \in DOMAIN args : args[k] = p})]
    /\ wpc' = "done"
    /\ UNCHANGED <<ctxPresent, arg_count, wi, pending, args, pulled,
                   hostCalls, hasResult, pushed, ret>>
    /\ UNCHANGED <<derVars, genVars, convFailed>>

WrapNext ==
    \/ GetScriptContext
    \/ PullScriptValue
    \/ ArgsAppend
    \/ CallBridge
    \/ PushScriptValue
    \/ RunDefers

\* ------------------------------------------------------- specifications
Init == IdleDer /\ InitGen /\ IdleWrap
Next == GenNext
Spec == Init /\ [][Next]_vars

InitDeriver == InitDer /\ IdleGen /\ IdleWrap
NextDeriver == Derive
SpecDeriver == InitDeriver /\ [][NextDeriver]_vars

InitWrapper == IdleDer /\ IdleGen /\ InitWrap
NextWrapper == WrapNext
SpecWrapper == InitWrapper /\ [][NextWrapper]_vars

\* ================================================================ claims
NameAt(k) == batch[k].name
FunctionsAt(k) == batch[k].config.functions
HasFunctions(k) == "functions" \in DOMAIN batch[k].config
Rendering == pc \in {"gen_funcs", "gen_consts", "write", "print"}

\* every text the renderer has returned for the k-th domain of the batch
TextsAt(k) == IF NameAt(k) \in DOMAIN returned THEN returned[NameAt(k)] ELSE {}

SharesAName(functions) ==
    \E a, b \in DOMAIN functions : a # b /\ functions[a][1] = functions[b][1]

\* C1: a Domain in which two Functions share a name is never rendered: the
\* renderer is not inside it, has returned no text for it, and no file of it
\* exists.
C1_NoTextForRepeatedName ==
    \A k \in DOMAIN batch :
        (HasFunctions(k) /\ SharesAName(FunctionsAt(k))) =>
            /\ TextsAt(k) = {}
            /\ NameAt(k) \notin DOMAIN files
            /\ ~(idx = k /\ Rendering)

\* ---------------------------------------------------------------- C2
RenderFailed ==
    /\ pc = "exit" /\ stderr # <<>>
    /\ stderr[1].raised_in = "generate_bridge_file"

\* the part of C2 about writes and output: with the idx-th domain the first
\* whose rendering fails, exactly the domains before it are written and
\* printed, none from it on is written, and the error is reported
C2_StopsAtFirstFailure ==
    RenderFailed =>
        /\ stdout = [j \in 1..(idx - 1) |-> NameAt(j)]
        /\ \A j \in 1..(idx - 1) :
              /\ NameAt(j) \in DOMAIN files
              /\ files[NameAt(j)].complete
              /\ files[NameAt(j)].text \in TextsAt(j)
        /\ \A j \in idx..Len(batch) : NameAt(j) \notin DOMAIN files
        /\ stderr[1].exc = "KeyError"
        /\ stderr[1].arg = MissingKey(batch[idx].config)

\* the part of C2 about the report: it names the failing domain
C2_ReportNamesDomain ==
    RenderFailed => NameAt(idx) \in stderr[1].domains

\* C2: when the k-th domain is the first whose rendering fails, main has
\* written and printed exactly the domains before k, has written nothing for
\* k or any later domain, has stopped, and reports the k-th domain's name
\* together with the error.
C2_FailFastBatch == C2_StopsAtFirstFailure /\ C2_ReportNamesDomain

\* ---------------------------------------------------------------- C3
\* C3: every returned text has FUNCTION_COUNT equal to the number of declared
\* functions, one registration entry per function in declared order pairing
\* the function's name with the identifier derived for it, and one wrapper
\* per entry in the same order, exported under that identifier.
C3_Completeness ==
    \A k \in DOMAIN batch : \A t \in TextsAt(k) :
        LET fs == FunctionsAt(k) IN
        /\ t.function_count = Len(fs)
        /\ Len(t.register_table) = Len(fs)
        /\ Len(t.implementations) = Len(fs)
        /\ \A i \in DOMAIN fs :
              /\ t.register_table[i].name = fs[i][1]
              /\ t.register_table[i].func = LuaFuncName(NameAt(k), fs[i][1])
              /\ t.implementations[i].export_fn = t.register_table[i].func
              /\ t.implementations[i].doc = fs[i][2]

\* a text was returned and written for a domain with two distinct functions
C3_Witness ==
    \E k \in DOMAIN batch :
        /\ TextsAt(k) # {}
        /\ NameAt(k) \in DOMAIN files
        /\ Len(FunctionsAt(k)) = 2
        /\ FunctionsAt(k)[1][1] # FunctionsAt(k)[2][1]

\* ---------------------------------------------------------------- C4
\* What the emitted statements do to the guest stack.  An item is a table
\* (with its entries, in insertion order) or a string; lua_setfield(L, -2, k)
\* pops the top item and stores it under k in the item below it.
LuaTable(entries) == [kind |-> "table", str |-> <<>>, entries |-> entries]
LuaString(s) == [kind |-> "string", str |-> s, entries |-> <<>>]

RECURSIVE LuaRun(_, _)
LuaRun(stmts, stack) ==
    IF stmts = <<>> THEN stack
    ELSE LET st == Head(stmts)
             n == Len(stack)
         IN IF st.op = "lua_newtable"
            THEN LuaRun(Tail(stmts), Append(stack, LuaTable(<<>>)))
            ELSE IF st.op = "lua_pushstring"
            THEN LuaRun(Tail(stmts), Append(stack, LuaString(st.arg)))
            ELSE IF st.op = "lua_setfield"
            THEN IF n < 2 \/ stack[n - 1].kind # "table"
                 THEN <<LuaString(<<"e","r","r","o","r">>)>>
                 ELSE LuaRun(Tail(stmts),
                             Append(SubSeq(stack, 1, n - 2),
                                    LuaTable(Append(stack[n - 1].entries,
                                                    [key |-> st.arg,
                                                     value |-> stack[n]]))))
            ELSE LuaRun(Tail(stmts), stack)

\* the namespace the claim describes: one table per group, in declared
\* order, under the group's name, holding value |-> lowercase(value) in
\* declared order
GroupTable(group) ==
    [key |-> group[1],
     value |-> LuaTable([j \in DOMAIN group[2] |->
                            [key |-> group[2][j],
                             value |-> LuaString(Lower(group[2][j]))]])]

\* C4: running the constant-installation routine of any returned text on a
\* namespace table leaves exactly one fresh table per ConstantGroup, attached
\* in declared order under the group's own name, whose entries are, in
\* declared order, the exact symbolic name mapped to its lowercase form.
C4_ConstantRoundTrip ==
    \A k \in DOMAIN batch : \A t \in TextsAt(k) :
        LET groups == ConstantsOf(batch[k].config) IN
        LuaRun(t.add_constants, <<LuaTable(<<>>)>>)
            = <<LuaTable([g \in DOMAIN groups |-> GroupTable(groups[g])])>>

\* a text was returned for a domain with two groups, one of them with two
\* values that differ from their lowercase forms
C4_Witness ==
    \E k \in DOMAIN batch :
        /\ TextsAt(k) # {}
        /\ Len(ConstantsOf(batch[k].config)) = 2
        /\ Len(ConstantsOf(batch[k].config)[1][2]) = 2
        /\ \A v \in DOMAIN ConstantsOf(batch[k].config)[1][2] :
              Lower(ConstantsOf(batch[k].config)[1][2][v])
                  # ConstantsOf(batch[k].config)[1][2][v]

\* ---------------------------------------------------------------- C5
\* the derivation as the claim words it: every underscore-delimited segment
\* title-cased, every separator dropped
RECURSIVE SegmentsTitled(_, _)
SegmentsTitled(s, segmentStart) ==
    IF s = <<>> THEN <<>>
    ELSE IF Head(s) = "_" THEN SegmentsTitled(Tail(s), TRUE)
    ELSE <<IF segmentStart THEN ToUpper(Head(s)) ELSE ToLower(Head(s))>>
         \o SegmentsTitled(Tail(s), FALSE)

HasUnderscore(s) == \E k \in DOMAIN s : s[k] = "_"

\* C5: the wrapper identifier is the prefix, then the title-cased segments of
\* the domain name, then those of the function name, with every separator
\* stripped; it holds no underscore.
C5_IdentifierDerivation ==
    derived =>
        /\ identA = <<"l","u","a">> \o SegmentsTitled(dName, TRUE)
                                    \o SegmentsTitled(fNameA, TRUE)
        /\ ~HasUnderscore(identA)

\* ---------------------------------------------------------------- C6
PairwiseDistinct(s) == \A a, b \in DOMAIN s : a # b => s[a] # s[b]

\* C6: no returned text holds two registration entries or two wrappers with
\* the same identifier, and none is written to a file.
C6_NoDuplicateIdentifier ==
    /\ \A k \in DOMAIN batch : \A t \in TextsAt(k) :
          /\ PairwiseDistinct([i \in DOMAIN t.register_table |->
                                  t.register_table[i].func])
          /\ PairwiseDistinct([i \in DOMAIN t.implementations |->
                                  t.implementations[i].export_fn])
    /\ \A n \in DOMAIN files :
          PairwiseDistinct([i \in DOMAIN files[n].text.register_table |->
                               files[n].text.register_table[i].func])

\* ---------------------------------------------------------------- C7
\* C7 as claimed: distinct function names of one domain derive distinct
\* identifiers, over lowercase letters, uppercase letters and underscores.
C7_DistinctNamesDistinctIdentifiers ==
    (derived /\ fNameA # fNameB) => identA # identB

\* lowercase snake case: non-empty segments of lowercase letters, joined by
\* single underscores
IsSnakeCase(s) ==
    /\ s # <<>>
    /\ \A k \in DOMAIN s : IsLower(s[k]) \/ s[k] = "_"
    /\ s[1] # "_" /\ s[Len(s)] # "_"
    /\ \A k \in 1..(Len(s) - 1) : ~(s[k] = "_" /\ s[k + 1] = "_")

\* C7 amended: distinct function names of one domain that are in lowercase
\* snake case derive distinct identifiers.
C7_SnakeCaseNamesDistinctIdentifiers ==
    (derived /\ fNameA # fNameB /\ IsSnakeCase(fNameA) /\ IsSnakeCase(fNameB))
        => identA # identB

\* two snake-case names that differ only by an underscore were derived
C7_Witness ==
    /\ derived
    /\ IsSnakeCase(fNameA) /\ IsSnakeCase(fNameB)
    /\ HasUnderscore(fNameA) /\ ~HasUnderscore(fNameB)
    /\ Replace(fNameA, "_") = fNameB

\* ---------------------------------------------------------------- C8
\* C8: all texts the renderer has returned for one domain, in whatever run
\* and after whatever other domains, are one and the same text; a complete
\* file holds it.
C8_Determinism ==
    /\ \A n \in DOMAIN returned : Cardinality(returned[n]) = 1
    /\ \A n \in DOMAIN files :
          files[n].complete => returned[n] = {files[n].text}

\* in the second run the second domain has been rendered again, after a
\* different history than the first time
C8_Witness ==
    /\ runs = 2 /\ idx = 2 /\ pc = "write"
    /\ NameAt(2) \in DOMAIN files

\* ---------------------------------------------------------------- C9
\* C9: when the wrapper has returned, every successfully converted argument
\* has been released exactly once, and so has the result if one was
\* obtained; nothing else was released.
C9_ReleasedExactlyOnce ==
    wpc = "done" =>
        /\ \A p \in DOMAIN released :
              released[p] = IF \E k \in DOMAIN pulled : pulled[k] = p
                            THEN 1 ELSE 0
        /\ resultReleased = IF hasResult THEN 1 ELSE 0

\* ---------------------------------------------------------------- C10
AllPositions == [p \in 1..arg_count |-> p]

\* C10: the host implementation is invoked at most once, only with the
\* context resolved and all positions 1..arg_count converted in order, and
\* is given all of them in that order; with the context absent or a
\* conversion failed it is never invoked and the wrapper returns the
\* translated error; the wrapper returns 1 only after the host result was
\* pushed.
C10_StepOrdering ==
    /\ Len(hostCalls) <= 1
    /\ hostCalls # <<>> =>
          /\ ctxPresent /\ ~convFailed
          /\ pulled = AllPositions
          /\ hostCalls[1] = AllPositions
    /\ (wpc = "done" /\ ~ctxPresent) =>
          /\ hostCalls = <<>>
          /\ ret = "handled:ScriptContextRequired"
    /\ convFailed =>
          /\ hostCalls = <<>>
          /\ wpc \in {"defers", "done"}
          /\ ret = "handled:pull"
    /\ ret = "1" => (pushed /\ hasResult /\ Len(hostCalls) = 1)
    /\ (wpc = "done" /\ pushed) => ret = "1"

\* a call with at least two arguments went through and returned 1
C10_Witness ==
    /\ wpc = "done" /\ ret = "1" /\ arg_count >= 2
    /\ hostCalls = <<AllPositions>>
====
